---- MODULE Spec2Model ----
(***************************************************************************)
(* Model of the quark crate: BitSize, BitMask, BitIndex and Signs on the   *)
(* fixed-width integer primitives.                                         *)
(*                                                                         *)
(* A value of a W-bit type is its two's-complement bit pattern, a function *)
(* from bit position 0..W-1 (0 = least significant) to {0,1}; signedness   *)
(* belongs to the type and selects arithmetic or logical right shift and   *)
(* the meaning of `< 0`.  A usize (of a 64-bit target) is four 16-bit     *)
(* limbs, least significant first: sizes and indices up to usize::MAX are  *)
(* exact, and the `as u32` cast keeps the two low limbs.                   *)
(*                                                                         *)
(* Every operation is a pure function of its arguments, so the state is a  *)
(* value of some type, the build's overflow checking, and the last call    *)
(* made on the value with its argument and its result (or panic).  The     *)
(* amounts of the shifts the call executed are recorded beside the result: *)
(* those of the native `<<` and `>>`, and those checked_shr carried out.   *)
(***************************************************************************)
EXTENDS Integers, Sequences, FiniteSets, TLC

VARIABLES ty, self, overflow_checks, op, arg, ret, shifts

vars == <<ty, self, overflow_checks, op, arg, ret, shifts>>

(***************************************************************************)
(* Bounds of the model.                                                    *)
(***************************************************************************)
\* sizes, indices and range bounds 0..MaxIndex are enumerated
MaxIndex == 9
\* range bounds 0..MaxBound are enumerated
MaxBound == 5
\* indices 2^32 + 0..MaxWrapped, which the `as u32` cast wraps to 0..MaxWrapped
MaxWrapped == 1

(***************************************************************************)
(* bit_size.rs: the BIT_SIZE constants.                                    *)
(***************************************************************************)
BIT_SIZE_8 == 8
BIT_SIZE_16 == 16
BIT_SIZE_32 == 32
BIT_SIZE_64 == 64
BIT_SIZE_128 == 128
\* usize/isize on a 64-bit target
USIZE_BITS == 64
\* width of the u32 shift amount taken by checked_shr
U32_BITS == 32

Widths == {BIT_SIZE_8, BIT_SIZE_16, BIT_SIZE_32, BIT_SIZE_64, BIT_SIZE_128}

\* the integer types the impl macros are instantiated for (usize/isize are
\* the 64-bit types on a 64-bit target)
Types == [bits : Widths, signed : BOOLEAN]

(***************************************************************************)
(* usize arithmetic on 16-bit limbs.                                       *)
(***************************************************************************)
LimbBase == 2 ^ 16
NLimbs == USIZE_BITS \div 16

\* the usize holding the small number n (n < 2^31)
Usize(n) == <<n % LimbBase, (n \div LimbBase) % LimbBase, 0, 0>>

USIZE_MAX == [k \in 1..NLimbs |-> LimbBase - 1]

\* a + b on usize: the wrapped sum and whether it overflowed
usize_add(a, b) ==
    LET s1 == a[1] + b[1]
        s2 == a[2] + b[2] + (s1 \div LimbBase)
        s3 == a[3] + b[3] + (s2 \div LimbBase)
        s4 == a[4] + b[4] + (s3 \div LimbBase)
    IN  [val |-> <<s1 % LimbBase, s2 % LimbBase, s3 % LimbBase, s4 % LimbBase>>,
         overflow |-> s4 >= LimbBase]

\* a - b on usize: the wrapped difference and whether it overflowed
usize_sub(a, b) ==
    LET d1 == a[1] - b[1]
        b1 == IF d1 < 0 THEN 1 ELSE 0
        d2 == a[2] - b[2] - b1
        b2 == IF d2 < 0 THEN 1 ELSE 0
        d3 == a[3] - b[3] - b2
        b3 == IF d3 < 0 THEN 1 ELSE 0
        d4 == a[4] - b[4] - b3
        b4 == IF d4 < 0 THEN 1 ELSE 0
    IN  [val |-> <<d1 + b1 * LimbBase, d2 + b2 * LimbBase,
                   d3 + b3 * LimbBase, d4 + b4 * LimbBase>>,
         overflow |-> b4 = 1]

\* a < b on usize
usize_lt(a, b) == usize_sub(a, b).overflow

\* `x as u32` for a usize x: the low 32 bits
as_u32(x) == [k \in 1..(U32_BITS \div 16) |-> x[k]]

(***************************************************************************)
(* Bit patterns and the primitive operators used by the crate.             *)
(***************************************************************************)
Patterns(W) == [0..(W - 1) -> {0, 1}]

\* the literal 0 of a W-bit type
Zero(W) == [i \in 0..(W - 1) |-> 0]

\* the literal 1 of a W-bit type
One(W) == [i \in 0..(W - 1) |-> IF i = 0 THEN 1 ELSE 0]

\* The native shifts.  An amount at or beyond the width is masked to the
\* width (what a build without overflow checks does); the guards of mask and
\* sign_extend and the test of checked_shr keep every amount below the width.

\* x << n: bits shifted out of the top are discarded
shl(W, x, n) ==
    [i \in 0..(W - 1) |-> IF i >= n % W THEN x[i - (n % W)] ELSE 0]

\* x >> n on an unsigned type: zeros come in at the top
shr_logical(W, x, n) ==
    [i \in 0..(W - 1) |-> IF i + (n % W) < W THEN x[i + (n % W)] ELSE 0]

\* x >> n on a signed type: copies of the sign bit come in at the top
shr_arith(W, x, n) ==
    [i \in 0..(W - 1) |-> IF i + (n % W) < W THEN x[i + (n % W)] ELSE x[W - 1]]

\* x >> n on type t
shr(t, x, n) ==
    IF t.signed THEN shr_arith(t.bits, x, n) ELSE shr_logical(t.bits, x, n)

\* x & y
bitand(W, x, y) == [i \in 0..(W - 1) |-> x[i] * y[i]]

\* x < 0 on type t (never true of an unsigned type)
lt_zero(t, x) == t.signed /\ x[t.bits - 1] = 1

(***************************************************************************)
(* bit_mask.rs                                                             *)
(***************************************************************************)
\* mask with the width test off by one: `s <= BIT_SIZE`
mask_le(W, size) ==
    LET high_bit == shl(W, One(W), W - 1)
    IN  IF size = Usize(0) THEN Zero(W)
        ELSE IF ~usize_lt(Usize(W), size)
             THEN shr_logical(W, shr_arith(W, high_bit, size[1]), W - size[1])
             ELSE shr_arith(W, high_bit, W - 1)

mask(W, size) ==
    LET high_bit == shl(W, One(W), W - 1)
    IN  IF size = Usize(0) THEN Zero(W)
        ELSE IF usize_lt(size, Usize(W))
             THEN shr_logical(W, shr_arith(W, high_bit, size[1]), W - size[1])
             ELSE shr_arith(W, high_bit, W - 1)

\* mask_to with a mask one bit too long
mask_to_plus_one(W, x, size) ==
    bitand(W, x, mask(W, usize_add(size, Usize(1)).val))

mask_to(W, x, size) == bitand(W, x, mask(W, size))

\* the amounts of mask's native shifts without the `0 => 0` arm
mask_shifts_no_zero_arm(W, size) ==
    IF usize_lt(size, Usize(W)) THEN <<W - 1, size[1], W - size[1]>>
    ELSE <<W - 1, W - 1>>

\* the amounts of the native shifts mask executes, in order: the one of
\* high_bit, then those of the arm taken
mask_shifts(W, size) ==
    IF size = Usize(0) THEN <<W - 1>>
    ELSE IF usize_lt(size, Usize(W)) THEN <<W - 1, size[1], W - size[1]>>
    ELSE <<W - 1, W - 1>>

(***************************************************************************)
(* Primitive operations of the standard library used by bit_index.rs.      *)
(***************************************************************************)
\* x.checked_shr(rhs) on type t for a u32 rhs: None when rhs >= t's width
checked_shr(t, x, rhs) ==
    IF rhs[2] = 0 /\ rhs[1] < t.bits
    THEN [some |-> TRUE, val |-> shr(t, x, rhs[1])]
    ELSE [some |-> FALSE, val |-> <<>>]

\* the amount of the shift x.checked_shr(rhs) carries out, if it does
checked_shr_shifts(t, rhs) ==
    IF rhs[2] = 0 /\ rhs[1] < t.bits THEN <<rhs[1]>> ELSE <<>>

\* the borrow into bit i of x - y
RECURSIVE borrow_into(_, _, _)
borrow_into(x, y, i) ==
    IF i = 0 THEN 0
    ELSE IF x[i - 1] - y[i - 1] - borrow_into(x, y, i - 1) < 0 THEN 1 ELSE 0

\* x.wrapping_sub(y)
wrapping_sub(W, x, y) ==
    [i \in 0..(W - 1) |-> (x[i] - y[i] - borrow_into(x, y, i) + 2) % 2]

\* the result of a usize `+` or `-`: with overflow checks (debug builds) an
\* overflow panics, without them (release builds) the result wraps
checked(r, oc) == [panicked |-> oc /\ r.overflow, val |-> r.val]

\* a usize `+` or `-` applied to the result of an earlier one
then_add(p, b, oc) == IF p.panicked THEN p ELSE checked(usize_add(p.val, b), oc)

then_sub(p, b, oc) == IF p.panicked THEN p ELSE checked(usize_sub(p.val, b), oc)

\* a usize expression without arithmetic
plain(a) == [panicked |-> FALSE, val |-> a]

(***************************************************************************)
(* bit_index.rs                                                            *)
(***************************************************************************)
Included(n) == [kind |-> "Included", at |-> n]

Excluded(n) == [kind |-> "Excluded", at |-> n]

Unbounded == [kind |-> "Unbounded", at |-> Usize(0)]

\* bit without the `& 1`
bit_no_and(t, x, index) ==
    LET W == t.bits
        sh == checked_shr(t, x, as_u32(index))
        shifted == IF sh.some THEN sh.val
                   ELSE IF lt_zero(t, x) THEN One(W) ELSE Zero(W)
    IN  shifted = One(W)

bit(t, x, index) ==
    LET W == t.bits
        sh == checked_shr(t, x, as_u32(index))
        shifted == IF sh.some THEN sh.val
                   ELSE IF lt_zero(t, x) THEN One(W) ELSE Zero(W)
    IN  bitand(W, shifted, One(W)) = One(W)

\* the `mask` of bits(): Some(span) or None, or a panic
bits_mask(start, end, oc) ==
    CASE start.kind = "Excluded" /\ end.kind = "Excluded" ->
            [some |-> TRUE,
             m |-> then_sub(checked(usize_sub(end.at, start.at), oc), Usize(1), oc)]
      [] start.kind = "Excluded" /\ end.kind = "Included" ->
            [some |-> TRUE, m |-> checked(usize_sub(end.at, start.at), oc)]
      [] start.kind = "Excluded" /\ end.kind = "Unbounded" ->
            [some |-> FALSE, m |-> plain(Usize(0))]
      [] start.kind = "Included" /\ end.kind = "Excluded" ->
            [some |-> TRUE, m |-> checked(usize_sub(end.at, start.at), oc)]
      [] start.kind = "Included" /\ end.kind = "Included" ->
            [some |-> TRUE,
             m |-> then_sub(checked(usize_add(end.at, Usize(1)), oc), start.at, oc)]
      [] start.kind = "Included" /\ end.kind = "Unbounded" ->
            [some |-> FALSE, m |-> plain(Usize(0))]
      [] start.kind = "Unbounded" /\ end.kind = "Excluded" ->
            [some |-> TRUE, m |-> plain(end.at)]
      [] start.kind = "Unbounded" /\ end.kind = "Included" ->
            [some |-> TRUE, m |-> checked(usize_add(end.at, Usize(1)), oc)]
      [] start.kind = "Unbounded" /\ end.kind = "Unbounded" ->
            [some |-> FALSE, m |-> plain(Usize(0))]

\* the `shift` of bits() taking an included start as excluded
bits_shift_skips(start, oc) ==
    CASE start.kind = "Excluded" -> checked(usize_add(start.at, Usize(1)), oc)
      [] start.kind = "Included" -> checked(usize_add(start.at, Usize(1)), oc)
      [] start.kind = "Unbounded" -> plain(Usize(0))

\* the `shift` of bits(): always Some(start), or a panic
bits_shift(start, oc) ==
    CASE start.kind = "Excluded" -> checked(usize_add(start.at, Usize(1)), oc)
      [] start.kind = "Included" -> plain(start.at)
      [] start.kind = "Unbounded" -> plain(Usize(0))

\* self.checked_shr(s as _).unwrap_or_else(|| if *self < 0 { -1 } else { 0 })
shr_or_fill(t, x, s) ==
    LET sh == checked_shr(t, x, as_u32(s))
    IN  IF sh.some THEN sh.val
        ELSE IF lt_zero(t, x)
             THEN wrapping_sub(t.bits, Zero(t.bits), One(t.bits))
             ELSE Zero(t.bits)

bits(t, x, start, end, oc) ==
    LET mk == bits_mask(start, end, oc)
        sf == bits_shift(start, oc)
    IN  IF mk.m.panicked \/ sf.panicked
        THEN [panicked |-> TRUE, val |-> <<>>]
        ELSE IF mk.some
             THEN [panicked |-> FALSE,
                   val |-> mask_to(t.bits, shr_or_fill(t, x, sf.val), mk.m.val)]
             ELSE [panicked |-> FALSE, val |-> shr_or_fill(t, x, sf.val)]

\* the shifts of bits(): the checked one of self, and the native ones of
\* mask_to when there is a span; none when the bounds' arithmetic panicked
bits_shifts(t, start, end, oc) ==
    LET mk == bits_mask(start, end, oc)
        sf == bits_shift(start, oc)
    IN  IF mk.m.panicked \/ sf.panicked
        THEN [native |-> <<>>, checked |-> <<>>]
        ELSE [native |-> IF mk.some THEN mask_shifts(t.bits, mk.m.val) ELSE <<>>,
              checked |-> checked_shr_shifts(t, as_u32(sf.val))]

(***************************************************************************)
(* signs.rs                                                                *)
(***************************************************************************)
\* the arm for the signed types
sign_bit_signed(t, x) == lt_zero([bits |-> t.bits, signed |-> TRUE], x)

\* sign_extend shifting by BIT_SIZE - bits
sign_extend_signed_from_low(W, x, bits_) ==
    IF ~usize_lt(bits_, Usize(W)) THEN Zero(W)
    ELSE shr_arith(W, shl(W, x, W - bits_[1]), W - bits_[1])

\* sign_extend with the width test off by one: `bits > BIT_SIZE`
sign_extend_signed_gt(W, x, bits_) ==
    IF usize_lt(Usize(W), bits_) THEN Zero(W)
    ELSE shr_arith(W, shl(W, x, bits_[1]), bits_[1])

sign_extend_signed(W, x, bits_) ==
    IF ~usize_lt(bits_, Usize(W)) THEN Zero(W)
    ELSE shr_arith(W, shl(W, x, bits_[1]), bits_[1])

\* sign_bit of an unsigned type without the cast: `*self < 0`
sign_bit_unsigned_no_cast(t, x) == lt_zero([bits |-> t.bits, signed |-> FALSE], x)

\* the arm for the unsigned types, which casts to the signed type
sign_bit_unsigned(t, x) == lt_zero([bits |-> t.bits, signed |-> TRUE], x)

\* sign_extend without the cast to the signed type: a logical right shift
sign_extend_unsigned_logical(W, x, bits_) ==
    IF ~usize_lt(bits_, Usize(W)) THEN Zero(W)
    ELSE shr_logical(W, shl(W, x, bits_[1]), bits_[1])

sign_extend_unsigned(W, x, bits_) ==
    IF ~usize_lt(bits_, Usize(W)) THEN Zero(W)
    ELSE shr_arith(W, shl(W, x, bits_[1]), bits_[1])

\* the amounts of the native shifts sign_extend executes (either arm)
sign_extend_shifts(W, bits_) ==
    IF ~usize_lt(bits_, Usize(W)) THEN <<>> ELSE <<bits_[1], bits_[1]>>

sign_bit(t, x) ==
    IF t.signed THEN sign_bit_signed(t, x) ELSE sign_bit_unsigned(t, x)

sign_extend(t, x, bits_) ==
    IF t.signed THEN sign_extend_signed(t.bits, x, bits_)
    ELSE sign_extend_unsigned(t.bits, x, bits_)

(***************************************************************************)
(* Inputs.                                                                 *)
(***************************************************************************)
\* the 16-bit pattern of the number n
Half(n) == [i \in 0..15 |-> (n \div (2 ^ i)) % 2]

\* the W-bit pattern whose 16-bit groups are, from the top, hi, lo (and again
\* hi, lo in a wider type): Word(32, 4660, 22136) is 0x1234_5678
Word(W, hi, lo) ==
    [i \in 0..(W - 1) |-> IF (i \div 16) % 2 = 0 THEN Half(lo)[i % 16]
                                                 ELSE Half(hi)[i % 16]]

\* the 8-bit pattern of the number n
Byte(n) == Word(BIT_SIZE_8, 0, n)

\* the bytes of the crate's tests, the extremes, and every eleventh byte
ByteValues ==
    {90, 166, 145, 204, 255, 0, 1, 127, 128} \cup {n \in 0..255 : n % 11 = 0}

\* the values of the 8-bit types, and for the wider types the values of the
\* crate's tests and documentation
Values(t) ==
    IF t.bits = BIT_SIZE_8 THEN { Byte(n) : n \in ByteValues }
    ELSE { Word(t.bits, 65535, 65535),
           Word(t.bits, 0, 32768), Word(t.bits, 32768, 32768),
           Word(t.bits, 65535, 0), Word(t.bits, 32767, 0),
           Word(t.bits, 4660, 22136) }

\* sizes, indices and range bounds: the small ones, those around half the
\* width and around the width, those just above 2^32 and the largest usize
Indices(t) ==
    { Usize(n) : n \in 0..MaxIndex }
    \cup { Usize(t.bits \div 2 + d) : d \in {-1, 0, 1} }
    \cup { Usize(t.bits + d) : d \in {-1, 0, 1} }
    \cup { <<n, 0, 1, 0>> : n \in 0..MaxWrapped }
    \cup { USIZE_MAX }

\* the positions of range bounds
RangeIndices(t) ==
    { Usize(n) : n \in 0..MaxBound }
    \cup { Usize(t.bits + d) : d \in {-1, 0, 1} }
    \cup { <<n, 0, 1, 0>> : n \in 0..MaxWrapped }
    \cup { USIZE_MAX }

\* the bounds of a range: one of the three kinds at each end
Bounds(t) ==
    { Included(n) : n \in RangeIndices(t) }
    \cup { Excluded(n) : n \in RangeIndices(t) }
    \cup { Unbounded }

(***************************************************************************)
(* The state machine: a value of some type, and the last call on it.       *)
(***************************************************************************)
Init ==
    /\ ty \in Types
    /\ self \in Values(ty)
    /\ overflow_checks \in BOOLEAN
    /\ op = "new"
    /\ arg = <<>>
    /\ ret = [panicked |-> FALSE, val |-> <<>>]
    /\ shifts = [native |-> <<>>, checked |-> <<>>]

Mask ==
    \E size \in Indices(ty) :
        /\ op = "new"
        /\ op' = "mask"
        /\ arg' = size
        /\ ret' = [panicked |-> FALSE, val |-> mask(ty.bits, size)]
        /\ shifts' = [native |-> mask_shifts(ty.bits, size), checked |-> <<>>]
        /\ UNCHANGED <<ty, self, overflow_checks>>

MaskTo ==
    \E size \in Indices(ty) :
        /\ op = "new"
        /\ op' = "mask_to"
        /\ arg' = size
        /\ ret' = [panicked |-> FALSE, val |-> mask_to(ty.bits, self, size)]
        /\ shifts' = [native |-> mask_shifts(ty.bits, size), checked |-> <<>>]
        /\ UNCHANGED <<ty, self, overflow_checks>>

Bit ==
    \E index \in Indices(ty) :
        /\ op = "new"
        /\ op' = "bit"
        /\ arg' = index
        /\ ret' = [panicked |-> FALSE, val |-> bit(ty, self, index)]
        /\ shifts' = [native |-> <<>>,
                       checked |-> checked_shr_shifts(ty, as_u32(index))]
        /\ UNCHANGED <<ty, self, overflow_checks>>

Bits ==
    \E start \in Bounds(ty), end \in Bounds(ty) :
        /\ op = "new"
        /\ op' = "bits"
        /\ arg' = [start |-> start, end |-> end]
        /\ ret' = bits(ty, self, start, end, overflow_checks)
        /\ shifts' = bits_shifts(ty, start, end, overflow_checks)
        /\ UNCHANGED <<ty, self, overflow_checks>>

SignBit ==
    /\ op = "new"
    /\ op' = "sign_bit"
    /\ arg' = <<>>
    /\ ret' = [panicked |-> FALSE, val |-> sign_bit(ty, self)]
    /\ shifts' = [native |-> <<>>, checked |-> <<>>]
    /\ UNCHANGED <<ty, self, overflow_checks>>

SignExtend ==
    \E bits_ \in Indices(ty) :
        /\ op = "new"
        /\ op' = "sign_extend"
        /\ arg' = bits_
        /\ ret' = [panicked |-> FALSE, val |-> sign_extend(ty, self, bits_)]
        /\ shifts' = [native |-> sign_extend_shifts(ty.bits, bits_), checked |-> <<>>]
        /\ UNCHANGED <<ty, self, overflow_checks>>

Next == Mask \/ MaskTo \/ Bit \/ Bits \/ SignBit \/ SignExtend

Spec == Init /\ [][Next]_vars

(***************************************************************************)
(* What the claims speak of, stated on bit positions.                      *)
(***************************************************************************)
\* u >= n for a usize u and a small number n
AtLeast(u, n) == u[2] > 0 \/ u[3] > 0 \/ u[4] > 0 \/ u[1] >= n

AllOnes(W) == [i \in 0..(W - 1) |-> 1]

\* the bit that fills the positions at and above the width
Fill(t, x) == IF t.signed THEN x[t.bits - 1] ELSE 0

\* the position of the lower bound of range r, and 1 when it is excluded
Lower(r) == IF r.start.kind = "Unbounded" THEN Usize(0) ELSE r.start.at

Skip(r) == IF r.start.kind = "Excluded" THEN 1 ELSE 0

\* the lower bound of r does not exceed its upper bound
Ordered(r) == r.end.kind = "Unbounded" \/ ~usize_lt(r.end.at, Lower(r))

\* start >= width, start being Lower(r) + Skip(r)
StartsBeyond(t, r) == AtLeast(Lower(r), t.bits - Skip(r))

\* position start + i is below the upper bound of the ordered range r
Kept(r, i) ==
    CASE r.end.kind = "Unbounded" -> TRUE
      [] r.end.kind = "Included" ->
            AtLeast(usize_sub(r.end.at, Lower(r)).val, Skip(r) + i)
      [] r.end.kind = "Excluded" ->
            AtLeast(usize_sub(r.end.at, Lower(r)).val, Skip(r) + i + 1)

\* the bit of x, extended beyond its width, at position start + i
Source(t, x, r, i) ==
    IF AtLeast(Lower(r), t.bits) \/ Lower(r)[1] + Skip(r) + i >= t.bits
    THEN Fill(t, x)
    ELSE x[Lower(r)[1] + Skip(r) + i]

\* the bits of x from the most significant down, as a sequence
AsSeq(W, x) == [k \in 1..W |-> x[W - k]]

(***************************************************************************)
(* The claims.                                                             *)
(***************************************************************************)
\* C1: mask(size) has exactly the bits below `size` set: none when size is
\* 0, the low `size` bits when 0 < size < width, all when size >= width; the
\* pattern is the same for the signed and the unsigned type of a width.
C1_MaskSetsLowBits ==
    op = "mask" =>
        /\ ~ret.panicked
        /\ \A i \in 0..(ty.bits - 1) :
               ret.val[i] = IF AtLeast(arg, i + 1) THEN 1 ELSE 0

C1_Witness ==
    /\ op = "mask" /\ ty.signed /\ arg = Usize(ty.bits - 1)
    /\ ret.val[ty.bits - 2] = 1 /\ ret.val[ty.bits - 1] = 0

\* C2: v.mask_to(n) keeps bits 0..n-1 of v and clears every bit at a
\* position >= n, whatever the sign of v.
C2_MaskToKeepsLowBits ==
    op = "mask_to" =>
        /\ ~ret.panicked
        /\ \A i \in 0..(ty.bits - 1) :
               ret.val[i] = IF AtLeast(arg, i + 1) THEN self[i] ELSE 0

C2_Witness ==
    /\ op = "mask_to" /\ ty.signed /\ self[ty.bits - 1] = 1
    /\ arg = Usize(4) /\ ret.val # self /\ ret.val # Zero(ty.bits)

\* C3: for a range whose lower bound does not exceed its upper bound,
\* v.bits(range) is v shifted right by start (filling with zeros, or with the
\* sign of a signed v, from the width on) and cut to the positions below the
\* upper bound when there is one.
C3_BitsShiftsThenMasks ==
    op = "bits" /\ Ordered(arg) =>
        /\ ~ret.panicked
        /\ \A i \in 0..(ty.bits - 1) :
               ret.val[i] = IF Kept(arg, i) THEN Source(ty, self, arg, i) ELSE 0

\* C4: for index < width, v.bit(index) is true exactly when bit `index` of
\* the bit pattern of v is 1.
C4_BitReadsPattern ==
    op = "bit" /\ ~AtLeast(arg, ty.bits) =>
        /\ ~ret.panicked
        /\ ret.val = (self[arg[1]] = 1)

C4_Witness ==
    /\ op = "bit" /\ ty.signed /\ arg = Usize(3)
    /\ self[3] = 1 /\ self[0] = 0 /\ ret.val = TRUE

\* C5: for every index >= width, v.bit(index) is false for an unsigned v and
\* the sign bit of v for a signed v.
C5_BitBeyondWidthIsFill ==
    op = "bit" /\ AtLeast(arg, ty.bits) =>
        /\ ~ret.panicked
        /\ ret.val = (Fill(ty, self) = 1)

\* C6: for a range with start >= width and an upper bound, v.bits(range) is 0
\* for an unsigned or non-negative v and -1 for a negative v.
C6_BitsBeyondWidthIsZeroOrMinusOne ==
    op = "bits" /\ arg.end.kind # "Unbounded" /\ StartsBeyond(ty, arg) =>
        /\ ~ret.panicked
        /\ ret.val = IF lt_zero(ty, self) THEN AllOnes(ty.bits) ELSE Zero(ty.bits)

\* C7: no call of bit, bits, mask, mask_to, sign_bit or sign_extend panics.
C7_NoCallPanics == ~ret.panicked

\* C8, as claimed: for 0 < bits < width, v.sign_extend(bits) keeps bits
\* 0..bits-1 of v and sets every bit at a position >= bits to bit bits-1.
C8_SignExtendFromBitsMinusOne ==
    op = "sign_extend" /\ AtLeast(arg, 1) /\ ~AtLeast(arg, ty.bits) =>
        \A i \in 0..(ty.bits - 1) :
            ret.val[i] = IF i < arg[1] THEN self[i] ELSE self[arg[1] - 1]

\* C8, amended: for 0 < bits < width, v.sign_extend(bits) keeps bits
\* 0..width-bits-1 of v and sets each of the upper `bits` bits, those at
\* positions >= width-bits, to bit width-bits-1 of v.
C8_SignExtendFillsUpperBits ==
    op = "sign_extend" /\ AtLeast(arg, 1) /\ ~AtLeast(arg, ty.bits) =>
        /\ ~ret.panicked
        /\ \A i \in 0..(ty.bits - 1) :
               ret.val[i] = IF i < ty.bits - arg[1] THEN self[i]
                            ELSE self[ty.bits - arg[1] - 1]

C8_Witness ==
    /\ op = "sign_extend" /\ ~ty.signed /\ arg = Usize(3)
    /\ self[ty.bits - 4] = 1 /\ self[ty.bits - 1] = 0 /\ self[2] = 0
    /\ ret.val[ty.bits - 1] = 1

\* C9: for bits < width, v.sign_extend(bits) is v with its top `bits` bits
\* dropped and the rest moved up (the left shift), then moved back down with
\* copies of the new top bit coming in (the arithmetic right shift); the two
\* arms give the same pattern; on the 32-bit 0x0000_8000, sign_extend(15) is
\* 0x0000_8000 and sign_extend(16) is 0xffff_8000.
C9_SignExtendShiftsLeftThenRight ==
    op = "sign_extend" /\ ~AtLeast(arg, ty.bits) =>
        /\ ~ret.panicked
        /\ AsSeq(ty.bits, ret.val) =
               [k \in 1..arg[1] |-> AsSeq(ty.bits, self)[arg[1] + 1]]
               \o SubSeq(AsSeq(ty.bits, self), arg[1] + 1, ty.bits)
        /\ sign_extend_unsigned(ty.bits, self, arg)
               = sign_extend_signed(ty.bits, self, arg)
        /\ ty.bits = BIT_SIZE_32 /\ self = Word(BIT_SIZE_32, 0, 32768) =>
               /\ arg = Usize(15) => ret.val = Word(BIT_SIZE_32, 0, 32768)
               /\ arg = Usize(16) => ret.val = Word(BIT_SIZE_32, 65535, 32768)

C9_Witness ==
    /\ op = "sign_extend" /\ ty = [bits |-> BIT_SIZE_32, signed |-> FALSE]
    /\ self = Word(BIT_SIZE_32, 0, 32768) /\ arg = Usize(16)
    /\ ret.val = Word(BIT_SIZE_32, 65535, 32768)

\* C10: for bits >= width, v.sign_extend(bits) is 0, also when bits is the
\* width and v is not 0.
C10_SignExtendBeyondWidthIsZero ==
    op = "sign_extend" /\ AtLeast(arg, ty.bits) =>
        /\ ~ret.panicked
        /\ \A i \in 0..(ty.bits - 1) : ret.val[i] = 0

C10_Witness ==
    /\ op = "sign_extend" /\ arg = Usize(ty.bits)
    /\ self # Zero(ty.bits) /\ ret.val = Zero(ty.bits)

\* C11: for a <= b and a < width, v.bits(a..b) shifted left by a is v with
\* every bit outside positions a..b-1 cleared, which is v & (mask(b - a) << a).
C11_ReembeddedBitsAreTheWindow ==
    op = "bits" /\ arg.start.kind = "Included" /\ arg.end.kind = "Excluded"
                /\ ~usize_lt(arg.end.at, arg.start.at)
                /\ ~AtLeast(arg.start.at, ty.bits) =>
        /\ ~ret.panicked
        /\ \A j \in 0..(ty.bits - 1) :
               LET a == arg.start.at[1]
                   back == IF j >= a THEN ret.val[j - a] ELSE 0
                   m == mask(ty.bits, usize_sub(arg.end.at, arg.start.at).val)
               IN  /\ back = IF a <= j /\ AtLeast(arg.end.at, j + 1)
                             THEN self[j] ELSE 0
                   /\ back = self[j] * (IF j >= a THEN m[j - a] ELSE 0)

C11_Witness ==
    /\ op = "bits" /\ ty.signed /\ self[ty.bits - 1] = 1
    /\ arg = [start |-> Included(Usize(2)), end |-> Excluded(Usize(5))]
    /\ self[1] = 1 /\ self[5] = 1 /\ self[2] = 1 /\ self[4] = 0
    /\ ret.val[0] = 1 /\ ret.val[2] = 0 /\ ret.val[3] = 0

\* the number an unsigned type reads in the low n bits of pattern x
RECURSIVE UnsignedValue(_, _)
UnsignedValue(n, x) ==
    IF n = 0 THEN 0 ELSE UnsignedValue(n - 1, x) + x[n - 1] * 2 ^ (n - 1)

\* the number a signed W-bit type reads in pattern x
SignedValue(W, x) == UnsignedValue(W, x) - x[W - 1] * 2 ^ W

\* C12: v.sign_bit() is true exactly when the most significant bit of v is
\* 1, which is when a signed v is negative and when an unsigned v is at least
\* 2^(width-1) (read as numbers for the 8- and 16-bit types, whose values
\* TLC's integers hold), and it is v.bit(width-1).
C12_SignBitIsTopBit ==
    op = "sign_bit" =>
        /\ ~ret.panicked
        /\ ret.val = (self[ty.bits - 1] = 1)
        /\ ret.val = bit(ty, self, Usize(ty.bits - 1))
        /\ ty.bits <= BIT_SIZE_16 =>
               ret.val = IF ty.signed THEN SignedValue(ty.bits, self) < 0
                         ELSE UnsignedValue(ty.bits, self) >= 2 ^ (ty.bits - 1)

C12_Witness ==
    /\ op = "sign_bit" /\ ~ty.signed /\ self[ty.bits - 1] = 1
    /\ self[0] = 0 /\ ret.val = TRUE

\* what mask returns when its native shifts have the amounts a
MaskReplayed(W, a) ==
    CASE Len(a) = 1 -> Zero(W)
      [] Len(a) = 2 -> shr_arith(W, shl(W, One(W), a[1]), a[2])
      [] Len(a) = 3 ->
            shr_logical(W, shr_arith(W, shl(W, One(W), a[1]), a[2]), a[3])

\* what sign_extend returns on x when its native shifts have the amounts a
SignExtendReplayed(W, x, a) ==
    IF a = <<>> THEN Zero(W) ELSE shr_arith(W, shl(W, x, a[1]), a[2])

\* C13: every native shift executed by mask, mask_to and sign_extend (and by
\* the mask_to that bits calls) has an amount in 0..width-1; bit and bits
\* shift self only through checked_shr, which shifts by an amount in
\* 0..width-1 or not at all, and then the result is the fill: the sign of a
\* signed v or zero for bit, and for bits all-ones or zero, cut to the span.
\* The amounts recorded for mask and sign_extend are those that give the
\* call's result.
C13_ShiftAmountsBelowWidth ==
    /\ \A k \in DOMAIN shifts.native : shifts.native[k] \in 0..(ty.bits - 1)
    /\ op = "mask" => ret.val = MaskReplayed(ty.bits, shifts.native)
    /\ op = "sign_extend" =>
           ret.val = SignExtendReplayed(ty.bits, self, shifts.native)
    /\ \A k \in DOMAIN shifts.checked : shifts.checked[k] \in 0..(ty.bits - 1)
    /\ op \in {"mask", "mask_to", "sign_extend", "sign_bit"} =>
           shifts.checked = <<>>
    /\ op = "bit" =>
           /\ shifts.native = <<>>
           /\ shifts.checked = <<>> => ret.val = (Fill(ty, self) = 1)
    /\ op = "bits" /\ ~ret.panicked =>
           /\ arg.end.kind = "Unbounded" => shifts.native = <<>>
           /\ shifts.checked = <<>> =>
                  \A i \in 0..(ty.bits - 1) :
                      /\ ret.val[i] <= Fill(ty, self)
                      /\ arg.end.kind = "Unbounded" => ret.val[i] = Fill(ty, self)

C13_Witness ==
    /\ op = "mask" /\ arg = Usize(1)
    /\ shifts.native = <<ty.bits - 1, 1, ty.bits - 1>>

====
